---- MODULE Spec2Model ----
(***************************************************************************)
(* Go-server-crud: an in-memory item registry served over HTTP, with an    *)
(* event published to the item_events queue on each mutation.              *)
(*                                                                         *)
(* The server (package main, the file with eventPublisher) is modelled as  *)
(* one goroutine per request; each goroutine walks through its handler     *)
(* statement by statement, so that the interleavings the mutex allows are  *)
(* the interleavings of the model.                                         *)
(***************************************************************************)
EXTENDS Integers, Sequences, FiniteSets, TLC

\* ------------------------------------------------------------------ bounds
\* Total number of HTTP requests the clients send in one behaviour.
MaxRequests == 3
\* Largest id a client writes in a request body.
MaxBodyID == 2

\* Messages sent to item_events in one behaviour of the consumer process.
MaxMessages == 2
\* The count of handler calls per message stops growing here.
MaxCalls == 2

\* Request goroutines served concurrently by net/http.
Procs == {"r1", "r2"}
\* Item names the clients send.
Names == {"", "a"}

\* ------------------------------------------------------- program constants
StatusOK == 200
StatusCreated == 201
StatusBadRequest == 400
StatusNotFound == 404
StatusMethodNotAllowed == 405

EventItemCreated == "item.created"
EventItemUpdated == "item.updated"
EventItemDeleted == "item.deleted"

MethodGet == "GET"
MethodPost == "POST"
MethodPut == "PUT"
MethodDelete == "DELETE"
Methods == {MethodGet, MethodPost, MethodPut, MethodDelete}

RouteItems == "/items"
RouteAdd == "/items/add"
RouteUpdate == "/items/update"
RouteDelete == "/items/delete"
Routes == {RouteItems, RouteAdd, RouteUpdate, RouteDelete}

\* ------------------------------------------------------------------ values
\* The mutex is unlocked.
Unlocked == "unlocked"
\* The nil *EventPublisher.
NilPublisher == [nil |-> TRUE]
\* A JSON field the request body does not carry.
Absent == "absent"
\* A request body that is not a JSON object for an Item.
Malformed == [ok |-> FALSE]

\* type Item struct { ID int; Name string }
Item(id, name) == [id |-> id, name |-> name]
\* The zero value of Item, as declared by "var newItem Item".
ZeroItem == Item(0, "")

\* A time.Time: the wall clock reading and the monotonic clock reading that
\* time.Now() attaches to it (0: none).
Time(wall, mono) == [wall |-> wall, mono |-> mono]
\* The zero time.Time.
ZeroTime == Time(0, 0)
\* time.Now() as the server reads it when it builds an event.
Now == Time(1, 1)

\* type ItemEvent struct { Type; Item; Timestamp }
ItemEvent(type, item, timestamp) ==
    [type |-> type, item |-> item, timestamp |-> timestamp]

\* ----------------------------------------------------------- encoding/json
\* A JSON text as its value: a string, a number, or an object with its
\* members <<name, value>> in the order they are written. A string that
\* holds an RFC 3339 time carries the instant in num.
JString(s) == [kind |-> "string", str |-> s, num |-> 0, members |-> << >>]
JNumber(n) == [kind |-> "number", str |-> "", num |-> n, members |-> << >>]
JObject(ms) == [kind |-> "object", str |-> "", num |-> 0, members |-> ms]
\* Bytes that are not a JSON text.
Garbage == [kind |-> "invalid", str |-> "", num |-> 0, members |-> << >>]
\* No bytes yet, and the value of a member an object does not have.
NoData == [kind |-> "none", str |-> "", num |-> 0, members |-> << >>]

\* Time.MarshalJSON: the RFC 3339 text of the wall clock reading; the
\* monotonic reading is not written.
FormatTime(t) == [kind |-> "string", str |-> "rfc3339", num |-> t.wall, members |-> << >>]
\* Time.UnmarshalJSON: the instant of an RFC 3339 string, without a monotonic
\* reading; an error on any other value.
ParseTime(v) ==
    IF v.kind = "string" /\ v.str = "rfc3339"
    THEN [err |-> FALSE, time |-> Time(v.num, 0)]
    ELSE [err |-> TRUE, time |-> ZeroTime]

\* json.Marshal of an Item with the tags `json:"id"` and `json:"name"`, the id
\* written as a string (the tag option ",string").
MarshalItem_IdAsString(item) ==
    JObject(<< <<"id", [kind |-> "string", str |-> "digits", num |-> item.id,
                        members |-> << >>]>>,
               <<"name", JString(item.name)>> >>)

\* json.Marshal of an Item: the fields in struct order under their tags.
MarshalItem(item) ==
    JObject(<< <<"id", JNumber(item.id)>>, <<"name", JString(item.name)>> >>)

\* json.Marshal(event), as Publish and the tests call it.
Marshal(event) ==
    JObject(<< <<"type", JString(event.type)>>,
               <<"item", MarshalItem(event.item)>>,
               <<"timestamp", FormatTime(event.timestamp)>> >>)

\* The value the decoder stores for a struct field: that of the last member
\* with the field's name, NoData when there is none.
Lookup(ms, name) ==
    IF \E i \in 1 .. Len(ms) : ms[i][1] = name
    THEN ms[CHOOSE i \in 1 .. Len(ms) :
               /\ ms[i][1] = name
               /\ \A j \in (i + 1) .. Len(ms) : ms[j][1] # name][2]
    ELSE NoData

\* Decoding into a string field and into an int field: a missing member
\* leaves the zero value, a value of another kind is an error.
DecodeString(v) ==
    IF v = NoData THEN [err |-> FALSE, val |-> ""]
    ELSE IF v.kind = "string" /\ v.str # "rfc3339" THEN [err |-> FALSE, val |-> v.str]
    ELSE [err |-> TRUE, val |-> ""]
DecodeInt(v) ==
    IF v = NoData THEN [err |-> FALSE, val |-> 0]
    ELSE IF v.kind = "number" THEN [err |-> FALSE, val |-> v.num]
    ELSE [err |-> TRUE, val |-> 0]

\* Decoding into the Item field.
UnmarshalItem(v) ==
    IF v = NoData THEN [err |-> FALSE, item |-> ZeroItem]
    ELSE IF v.kind # "object" THEN [err |-> TRUE, item |-> ZeroItem]
    ELSE LET id == DecodeInt(Lookup(v.members, "id"))
             name == DecodeString(Lookup(v.members, "name"))
         IN  [err |-> id.err \/ name.err, item |-> Item(id.val, name.val)]

\* json.Unmarshal(data, &event) into a zero ItemEvent: an error when the
\* bytes are not a JSON object or a member's value does not fit its field;
\* members without a field are ignored.
Unmarshal(b) ==
    IF b.kind # "object"
    THEN [err |-> TRUE, event |-> ItemEvent("", ZeroItem, ZeroTime)]
    ELSE LET type == DecodeString(Lookup(b.members, "type"))
             item == UnmarshalItem(Lookup(b.members, "item"))
             ts == IF Lookup(b.members, "timestamp") = NoData
                   THEN [err |-> FALSE, time |-> ZeroTime]
                   ELSE ParseTime(Lookup(b.members, "timestamp"))
         IN  [err |-> type.err \/ item.err \/ ts.err,
              event |-> ItemEvent(type.val, item.item, ts.time)]

\* The request bodies the clients send: malformed, or an object with or
\* without each of the two fields. -1 stands for a body without "id" (an
\* explicit "id": 0 decodes to the same Item and is not sent).
BodyIds == (1 .. MaxBodyID) \cup {-1}
Bodies ==
    {Malformed} \cup
    {[ok |-> TRUE, id |-> i, name |-> n] : i \in BodyIds, n \in Names \cup {Absent}}

\* json.NewDecoder(r.Body).Decode(&item) on a well-formed body: a field the
\* body does not carry keeps the zero value.
DecodeItem(body) ==
    Item(IF body.id = -1 THEN 0 ELSE body.id,
         IF body.name = Absent THEN "" ELSE body.name)

\* HTTP responses: a status and a body that is an Item, a list, or a text.
ItemResponse(status, item) == [status |-> status, kind |-> "item", item |-> item]
ErrorResponse(status, text) == [status |-> status, kind |-> "text", text |-> text]
NoResponse == [status |-> 0, kind |-> "none"]

\* json.NewEncoder(w).Encode(items): a nil slice is written as null, any other
\* slice as an array of its elements, in order.
EncodeItems(isNil, s) ==
    IF isNil THEN [status |-> StatusOK, kind |-> "null"]
    ELSE [status |-> StatusOK, kind |-> "array", list |-> s]

\* What a client reads back from a list response ([]Item decoded from null
\* is the empty list).
DecodeList(r) == IF r.kind = "array" THEN r.list ELSE << >>

\* ------------------------------------------------------------------- state
VARIABLES
    items,          \* var items []Item, as the sequence of its elements
    itemsNil,       \* whether items is the nil slice
    nextID,         \* var nextID int = 1
    mutex,          \* var mutex sync.Mutex: Unlocked, or the goroutine holding it
    eventPublisher, \* var eventPublisher *EventPublisher
    mainPc,         \* where func main is: "init" or "serving"
    queue,          \* the broker's item_events queue
    pc,             \* each request goroutine's position
    req,            \* the request line each goroutine serves
    body,           \* the request body the handler read
    local,          \* the handler's Item variable (newItem, updatedItem, item)
    pubResult,      \* what Publish returned to the handler: "none", "ok", "err"
    resp,           \* the response written so far
    served,         \* number of requests accepted so far
    createLog,      \* history: the ids taken by addItem, in order
    removed,        \* history: the ids removed by deleteItem
    seqStore,       \* history: the store after running, one at a time and in
                    \* the order they took the mutex, the handlers so far
    seqResp,        \* history: the response that one-at-a-time run gives
    pending,        \* history: the goroutines whose mutation is applied and
                    \* whose publish block has not run yet, in the order
                    \* they changed the store
    eventConsumer,  \* the *EventConsumer of the consumer process
    conPc,          \* where the goroutine started by Consume is
    delivery,       \* the delivery d the consumer loop works on
    sigs,           \* what the loop told the broker about d (Ack, Nack)
    handlerRet,     \* what handler returned for d: "none", "ok", "err"
    calls,          \* history: how often handler was called, per message
    acked,          \* history: the messages the broker saw acknowledged
    dropped,        \* history: the messages the broker discarded
    published,      \* history: the messages sent to the queue so far
    ret,            \* the last call on a publisher or consumer and its error
    originalEvent,  \* the event a serialization test starts from
    data,           \* the bytes the test holds
    unmarshaled     \* what json.Unmarshal made of them

vars == <<items, itemsNil, nextID, mutex, eventPublisher, mainPc, queue, pc, req,
          body, local, pubResult, resp, served, createLog, removed, seqStore,
          seqResp, pending, eventConsumer, conPc, delivery, sigs, handlerRet, calls, acked,
          dropped, published, ret, originalEvent, data, unmarshaled>>

store == <<items, itemsNil, nextID>>
hist == <<createLog, removed, seqStore, seqResp, pending>>
log == <<createLog, removed, pending>>
\* The variables of a serialization test.
codec == <<originalEvent, data, unmarshaled>>
\* The state of the consumer process and of the calls made on events.go.
consumer == <<eventConsumer, conPc, delivery, sigs, handlerRet, calls, acked,
              dropped, published, ret>>
\* What a step of the server leaves alone.
evars == <<consumer, codec>>

TypeOK ==
    /\ itemsNil \in BOOLEAN
    /\ nextID \in Nat
    /\ mutex \in {Unlocked} \cup Procs
    /\ mainPc \in {"init", "serving"}
    /\ served \in 0 .. MaxRequests

\* &EventPublisher{} and &EventConsumer{}: no connection, no channel.
ZeroObject == [nil |-> FALSE, conn |-> "nil", channel |-> "nil", queue |-> ""]
\* No delivery taken yet.
NoDelivery == [none |-> TRUE]
\* No call made yet on a publisher or consumer.
NoCall == [op |-> "none", err |-> FALSE, closed |-> << >>, opened |-> << >>]
\* The events the producers publish: one of each type.
Events ==
    {ItemEvent(t, Item(1, "a"), Now) :
        t \in {EventItemCreated, EventItemUpdated, EventItemDeleted}}
\* Their bodies on the wire.
WireEvents == {Marshal(e) : e \in Events}
\* The message bodies that reach the queue.
WireBodies == WireEvents \cup {Garbage}

\* The package variables with nextID left at the zero value of int.
ServerInit_NextIDZero ==
    /\ items = << >>
    /\ itemsNil = TRUE
    /\ nextID = 0
    /\ mutex = Unlocked
    /\ mainPc = "init"
    /\ queue = << >>
    /\ pc = [p \in Procs |-> "idle"]
    /\ req = [p \in Procs |-> [route |-> RouteItems, method |-> MethodGet]]
    /\ body = [p \in Procs |-> Malformed]
    /\ local = [p \in Procs |-> ZeroItem]
    /\ pubResult = [p \in Procs |-> "none"]
    /\ resp = [p \in Procs |-> NoResponse]
    /\ served = 0
    /\ createLog = << >>
    /\ removed = {}
    /\ seqStore = [items |-> << >>, itemsNil |-> TRUE, nextID |-> 0]
    /\ seqResp = [p \in Procs |-> NoResponse]
    /\ pending = << >>

\* The package variables of the server and the state of its goroutines
\* before main runs.
ServerInit ==
    /\ items = << >>
    /\ itemsNil = TRUE
    /\ nextID = 1
    /\ mutex = Unlocked
    /\ mainPc = "init"
    /\ queue = << >>
    /\ pc = [p \in Procs |-> "idle"]
    /\ req = [p \in Procs |-> [route |-> RouteItems, method |-> MethodGet]]
    /\ body = [p \in Procs |-> Malformed]
    /\ local = [p \in Procs |-> ZeroItem]
    /\ pubResult = [p \in Procs |-> "none"]
    /\ resp = [p \in Procs |-> NoResponse]
    /\ served = 0
    /\ createLog = << >>
    /\ removed = {}
    /\ seqStore = [items |-> << >>, itemsNil |-> TRUE, nextID |-> 1]
    /\ seqResp = [p \in Procs |-> NoResponse]
    /\ pending = << >>

\* The consumer process before NewEventConsumer and Consume.
ConsumerInit ==
    /\ eventConsumer = ZeroObject
    /\ conPc = "none"
    /\ delivery = NoDelivery
    /\ sigs = << >>
    /\ handlerRet = "none"
    /\ calls = [b \in WireBodies |-> 0]
    /\ acked = {}
    /\ dropped = {}
    /\ published = {}
    /\ ret = NoCall

\* No serialization test runs.
NotDecoded == [done |-> FALSE, err |-> FALSE, event |-> ItemEvent("", ZeroItem, ZeroTime)]
CodecIdle ==
    /\ originalEvent = ItemEvent("", ZeroItem, ZeroTime)
    /\ data = NoData
    /\ unmarshaled = NotDecoded

Init ==
    /\ ServerInit
    /\ eventPublisher = NilPublisher
    /\ ConsumerInit
    /\ CodecIdle

\* ------------------------------------------------------- store operations
\* "for i, item := range items { if item.ID == id {": the index of the first
\* element with that id, 0 when the loop ends without a match.
FirstMatch(s, id) ==
    IF \E i \in 1 .. Len(s) : s[i].id = id
    THEN CHOOSE i \in 1 .. Len(s) :
            /\ s[i].id = id
            /\ \A j \in 1 .. (i - 1) : s[j].id # id
    ELSE 0

\* append(items[:i], items[i+1:]...), with i counted from 1.
RemoveAt(s, i) == SubSeq(s, 1, i - 1) \o SubSeq(s, i + 1, Len(s))

\* The status a mutating handler writes on success: addItem calls
\* WriteHeader(http.StatusCreated), the others leave the default 200.
SuccessStatus(h) == IF h = "addItem" THEN StatusCreated ELSE StatusOK

\* A handler's critical section as one step on a store st = [items,
\* itemsNil, nextID]: the store it leaves and the response it writes.
Atomic(h, item, st) ==
    LET i == FirstMatch(st.items, item.id) IN
    CASE h = "getItems" ->
           [store |-> st, resp |-> EncodeItems(st.itemsNil, st.items)]
      [] h = "addItem" ->
           LET newItem == Item(st.nextID, item.name) IN
           [store |-> [items |-> Append(st.items, newItem), itemsNil |-> FALSE,
                       nextID |-> st.nextID + 1],
            resp |-> ItemResponse(StatusCreated, newItem)]
      [] h = "updateItem" ->
           IF i # 0
           THEN [store |-> [st EXCEPT !.items[i] = item],
                 resp |-> ItemResponse(StatusOK, item)]
           ELSE [store |-> st,
                 resp |-> ErrorResponse(StatusNotFound, "Item not found")]
      [] h = "deleteItem" ->
           IF i # 0
           THEN [store |-> [st EXCEPT !.items = RemoveAt(st.items, i)],
                 resp |-> ItemResponse(StatusOK, st.items[i])]
           ELSE [store |-> st,
                 resp |-> ErrorResponse(StatusNotFound, "Item not found")]

\* ---------------------------------------------------------------- startup
\* NewEventPublisher(amqpURL): dial, open a channel, declare the queue. Any of
\* the three steps may fail, and then the constructor returns (nil, err).
DialOutcomes == {"dial_failed", "channel_failed", "declare_failed", "ok"}

\* What the constructor's steps have opened when it returns: amqp.Dial gives
\* the connection, conn.Channel() the channel.
Opened(outcome) ==
    CASE outcome = "dial_failed" -> << >>
      [] outcome = "channel_failed" -> <<"conn">>
      [] outcome = "declare_failed" -> <<"conn", "channel">>
      [] outcome = "ok" -> <<"conn", "channel">>

\* The error paths without the conn.Close() after a failed QueueDeclare.
Cleanup_ChannelOnly(outcome) ==
    CASE outcome = "dial_failed" -> << >>
      [] outcome = "channel_failed" -> <<"conn">>
      [] outcome = "declare_failed" -> <<"channel">>
      [] outcome = "ok" -> << >>

\* What the constructor's error paths close before they return: conn.Close()
\* after a failed conn.Channel(), ch.Close() and conn.Close() after a failed
\* QueueDeclare.
Cleanup(outcome) ==
    CASE outcome = "dial_failed" -> << >>
      [] outcome = "channel_failed" -> <<"conn">>
      [] outcome = "declare_failed" -> <<"channel", "conn">>
      [] outcome = "ok" -> << >>

NewEventPublisher(outcome) ==
    IF outcome = "ok"
    THEN [nil |-> FALSE, conn |-> "open", channel |-> "open", queue |-> "item_events"]
    ELSE NilPublisher

\* func main up to http.ListenAndServe: the publisher is created once, and a
\* failure leaves eventPublisher nil ("Server will continue without event
\* publishing").
Main ==
    /\ mainPc = "init"
    /\ \E outcome \in DialOutcomes : eventPublisher' = NewEventPublisher(outcome)
    /\ mainPc' = "serving"
    /\ UNCHANGED <<store, mutex, queue, pc, req, body, local, pubResult, resp,
                   served, hist>>
    /\ UNCHANGED evars

\* ------------------------------------------------------------- dispatching
\* The routing of the earlier main.go, where the /items closure also took
\* POST and ran addItem.
Handler_PostOnItems(r) ==
    CASE r.route = RouteItems /\ r.method = MethodGet -> "getItems"
      [] r.route = RouteItems /\ r.method = MethodPost -> "addItem"
      [] r.route = RouteAdd /\ r.method = MethodPost -> "addItem"
      [] r.route = RouteUpdate /\ r.method = MethodPut -> "updateItem"
      [] r.route = RouteDelete /\ r.method = MethodDelete -> "deleteItem"
      [] OTHER -> "none"

\* The handler the mux closures of main run for a request line; "none" is the
\* default branch of the switch on r.Method.
Handler(r) ==
    CASE r.route = RouteItems /\ r.method = MethodGet -> "getItems"
      [] r.route = RouteAdd /\ r.method = MethodPost -> "addItem"
      [] r.route = RouteUpdate /\ r.method = MethodPut -> "updateItem"
      [] r.route = RouteDelete /\ r.method = MethodDelete -> "deleteItem"
      [] OTHER -> "none"

\* A request arrives and net/http runs the route's closure in a goroutine.
Dispatch(p) ==
    /\ mainPc = "serving"
    /\ pc[p] \in {"idle", "done"}
    /\ served < MaxRequests
    /\ served' = served + 1
    /\ \E route \in Routes, method \in Methods :
         LET r == [route |-> route, method |-> method] IN
         /\ req' = [req EXCEPT ![p] = r]
         /\ IF Handler(r) = "none"
            THEN /\ resp' = [resp EXCEPT ![p] =
                        ErrorResponse(StatusMethodNotAllowed, "Method not allowed")]
                 /\ pc' = [pc EXCEPT ![p] = "done"]
            ELSE /\ resp' = [resp EXCEPT ![p] = NoResponse]
                 /\ pc' = [pc EXCEPT ![p] =
                        IF Handler(r) = "getItems" THEN "lock" ELSE "decode"]
    /\ body' = [body EXCEPT ![p] = Malformed]
    /\ local' = [local EXCEPT ![p] = ZeroItem]
    /\ pubResult' = [pubResult EXCEPT ![p] = "none"]
    /\ UNCHANGED <<store, mutex, eventPublisher, mainPc, queue, hist>>
    /\ UNCHANGED evars

\* Decode with its error ignored: the handler goes on with the zero Item.
Decode_IgnoreError(p) ==
    /\ pc[p] = "decode"
    /\ \E b \in Bodies :
         /\ body' = [body EXCEPT ![p] = b]
         /\ local' = [local EXCEPT ![p] =
                      IF b = Malformed THEN ZeroItem ELSE DecodeItem(b)]
         /\ pc' = [pc EXCEPT ![p] = "lock"]
         /\ UNCHANGED resp
    /\ UNCHANGED <<store, mutex, eventPublisher, mainPc, queue, req, pubResult,
                   served, hist>>
    /\ UNCHANGED evars

\* json.NewDecoder(r.Body).Decode(&item) at the head of addItem, updateItem
\* and deleteItem: 400 "Invalid input" and return on an error.
Decode(p) ==
    /\ pc[p] = "decode"
    /\ \E b \in Bodies :
         /\ body' = [body EXCEPT ![p] = b]
         /\ IF b = Malformed
            THEN /\ resp' = [resp EXCEPT ![p] =
                        ErrorResponse(StatusBadRequest, "Invalid input")]
                 /\ pc' = [pc EXCEPT ![p] = "done"]
                 /\ UNCHANGED local
            ELSE /\ local' = [local EXCEPT ![p] = DecodeItem(b)]
                 /\ pc' = [pc EXCEPT ![p] = "lock"]
                 /\ UNCHANGED resp
    /\ UNCHANGED <<store, mutex, eventPublisher, mainPc, queue, req, pubResult,
                   served, hist>>
    /\ UNCHANGED evars

\* Lock as it would be if it did not wait for the holder to unlock.
Lock_NoWait(p) ==
    /\ pc[p] = "lock"
    /\ mutex' = p
    /\ pc' = [pc EXCEPT ![p] = Handler(req[p])]
    /\ LET r == Atomic(Handler(req[p]), local[p], seqStore) IN
         /\ seqStore' = r.store
         /\ seqResp' = [seqResp EXCEPT ![p] = r.resp]
    /\ UNCHANGED <<store, eventPublisher, mainPc, queue, req, body, local,
                   pubResult, resp, served, log>>
    /\ UNCHANGED evars

\* mutex.Lock(): blocks while another goroutine holds the mutex. The
\* one-at-a-time run executes the whole handler here.
Lock(p) ==
    /\ pc[p] = "lock"
    /\ mutex = Unlocked
    /\ mutex' = p
    /\ pc' = [pc EXCEPT ![p] = Handler(req[p])]
    /\ LET r == Atomic(Handler(req[p]), local[p], seqStore) IN
         /\ seqStore' = r.store
         /\ seqResp' = [seqResp EXCEPT ![p] = r.resp]
    /\ UNCHANGED <<store, eventPublisher, mainPc, queue, req, body, local,
                   pubResult, resp, served, log>>
    /\ UNCHANGED evars

\* The deferred mutex.Unlock(), run when the handler returns; the goroutine
\* ends and its locals and its ResponseWriter are gone.
Unlock(p) ==
    /\ pc[p] = "unlock"
    /\ mutex' = Unlocked
    /\ pc' = [pc EXCEPT ![p] = "idle"]
    /\ body' = [body EXCEPT ![p] = Malformed]
    /\ local' = [local EXCEPT ![p] = ZeroItem]
    /\ pubResult' = [pubResult EXCEPT ![p] = "none"]
    /\ resp' = [resp EXCEPT ![p] = NoResponse]
    /\ seqResp' = [seqResp EXCEPT ![p] = NoResponse]
    /\ UNCHANGED <<store, eventPublisher, mainPc, queue, req, served, log, seqStore>>
    /\ UNCHANGED evars

\* ---------------------------------------------------------------- handlers
\* getItems under the lock: json.NewEncoder(w).Encode(items).
GetItems(p) ==
    /\ pc[p] = "getItems"
    /\ resp' = [resp EXCEPT ![p] = EncodeItems(itemsNil, items)]
    /\ pc' = [pc EXCEPT ![p] = "unlock"]
    /\ UNCHANGED <<store, mutex, eventPublisher, mainPc, queue, req, body, local,
                   pubResult, served, hist>>
    /\ UNCHANGED evars

\* addItem keeping an id the client sent and taking nextID only when the
\* body has none.
AddAssignID_FromBody(p) ==
    /\ pc[p] = "addItem"
    /\ local' = [local EXCEPT ![p].id = IF @ # 0 THEN @ ELSE nextID]
    /\ createLog' = Append(createLog, IF local[p].id # 0 THEN local[p].id ELSE nextID)
    /\ pc' = [pc EXCEPT ![p] = "add_inc"]
    /\ UNCHANGED <<store, mutex, eventPublisher, mainPc, queue, req, body,
                   pubResult, resp, served, removed, seqStore, seqResp,
                   pending>>
    /\ UNCHANGED evars

\* addItem: newItem.ID = nextID
AddAssignID(p) ==
    /\ pc[p] = "addItem"
    /\ local' = [local EXCEPT ![p].id = nextID]
    /\ createLog' = Append(createLog, nextID)
    /\ pc' = [pc EXCEPT ![p] = "add_inc"]
    /\ UNCHANGED <<store, mutex, eventPublisher, mainPc, queue, req, body,
                   pubResult, resp, served, removed, seqStore, seqResp,
                   pending>>
    /\ UNCHANGED evars

\* addItem without the nextID++.
AddIncrement_Skip(p) ==
    /\ pc[p] = "add_inc"
    /\ pc' = [pc EXCEPT ![p] = "add_append"]
    /\ UNCHANGED <<store, mutex, eventPublisher, mainPc, queue, req,
                   body, local, pubResult, resp, served, hist>>
    /\ UNCHANGED evars

\* addItem: nextID++
AddIncrement(p) ==
    /\ pc[p] = "add_inc"
    /\ nextID' = nextID + 1
    /\ pc' = [pc EXCEPT ![p] = "add_append"]
    /\ UNCHANGED <<items, itemsNil, mutex, eventPublisher, mainPc, queue, req,
                   body, local, pubResult, resp, served, hist>>
    /\ UNCHANGED evars

\* addItem putting the new record in front of the others.
AddAppend_Prepend(p) ==
    /\ pc[p] = "add_append"
    /\ items' = <<local[p]>> \o items
    /\ itemsNil' = FALSE
    /\ pc' = [pc EXCEPT ![p] = "publish"]
    /\ pending' = Append(pending, p)
    /\ UNCHANGED <<nextID, mutex, eventPublisher, mainPc, queue, req, body, local,
                   pubResult, resp, served, createLog, removed,
                   seqStore, seqResp>>
    /\ UNCHANGED evars

\* addItem: items = append(items, newItem)
AddAppend(p) ==
    /\ pc[p] = "add_append"
    /\ items' = Append(items, local[p])
    /\ itemsNil' = FALSE
    /\ pc' = [pc EXCEPT ![p] = "publish"]
    /\ pending' = Append(pending, p)
    /\ UNCHANGED <<nextID, mutex, eventPublisher, mainPc, queue, req, body, local,
                   pubResult, resp, served, createLog, removed,
                   seqStore, seqResp>>
    /\ UNCHANGED evars

\* updateItem as a merge: an empty name in the request keeps the stored name.
UpdateItem_Merge(p) ==
    /\ pc[p] = "updateItem"
    /\ LET i == FirstMatch(items, local[p].id) IN
         IF i # 0
         THEN /\ items' = [items EXCEPT ![i] =
                     IF local[p].name = "" THEN items[i] ELSE local[p]]
              /\ pc' = [pc EXCEPT ![p] = "publish"]
              /\ pending' = Append(pending, p)
              /\ UNCHANGED resp
         ELSE /\ resp' = [resp EXCEPT ![p] =
                     ErrorResponse(StatusNotFound, "Item not found")]
              /\ pc' = [pc EXCEPT ![p] = "unlock"]
              /\ UNCHANGED pending
              /\ UNCHANGED items
    /\ UNCHANGED <<itemsNil, nextID, mutex, eventPublisher, mainPc, queue, req,
                   body, local, pubResult, served, createLog,
                   removed, seqStore, seqResp>>
    /\ UNCHANGED evars

\* updateItem as an upsert: an id that is not stored is appended.
UpdateItem_Upsert(p) ==
    /\ pc[p] = "updateItem"
    /\ LET i == FirstMatch(items, local[p].id) IN
         IF i # 0
         THEN /\ items' = [items EXCEPT ![i] = local[p]]
              /\ pc' = [pc EXCEPT ![p] = "publish"]
              /\ pending' = Append(pending, p)
              /\ UNCHANGED <<resp, itemsNil>>
         ELSE /\ items' = Append(items, local[p])
              /\ itemsNil' = FALSE
              /\ pc' = [pc EXCEPT ![p] = "publish"]
              /\ pending' = Append(pending, p)
              /\ UNCHANGED resp
    /\ UNCHANGED <<nextID, mutex, eventPublisher, mainPc, queue, req,
                   body, local, pubResult, served, createLog,
                   removed, seqStore, seqResp>>
    /\ UNCHANGED evars

\* updateItem releasing the mutex as soon as the store is changed, before
\* the publish block.
UpdateItem_UnlockEarly(p) ==
    /\ pc[p] = "updateItem"
    /\ mutex' = Unlocked
    /\ LET i == FirstMatch(items, local[p].id) IN
         IF i # 0
         THEN /\ items' = [items EXCEPT ![i] = local[p]]
              /\ pc' = [pc EXCEPT ![p] = "publish"]
              /\ pending' = Append(pending, p)
              /\ UNCHANGED resp
         ELSE /\ resp' = [resp EXCEPT ![p] =
                     ErrorResponse(StatusNotFound, "Item not found")]
              /\ pc' = [pc EXCEPT ![p] = "unlock"]
              /\ UNCHANGED pending
              /\ UNCHANGED items
    /\ UNCHANGED <<itemsNil, nextID, eventPublisher, mainPc, queue, req,
                   body, local, pubResult, served, createLog, removed, seqStore,
                   seqResp>>
    /\ UNCHANGED evars

\* updateItem with an explicit mutex.Unlock() before the success response
\* only: the NotFound path returns with the mutex still locked.
UpdateItem_NoUnlockOnNotFound(p) ==
    /\ pc[p] = "updateItem"
    /\ LET i == FirstMatch(items, local[p].id) IN
         IF i # 0
         THEN /\ items' = [items EXCEPT ![i] = local[p]]
              /\ pc' = [pc EXCEPT ![p] = "publish"]
              /\ pending' = Append(pending, p)
              /\ UNCHANGED resp
         ELSE /\ resp' = [resp EXCEPT ![p] =
                     ErrorResponse(StatusNotFound, "Item not found")]
              /\ pc' = [pc EXCEPT ![p] = "done"]
              /\ UNCHANGED pending
              /\ UNCHANGED items
    /\ UNCHANGED <<itemsNil, nextID, mutex, eventPublisher, mainPc, queue, req,
                   body, local, pubResult, served, createLog, removed, seqStore,
                   seqResp>>
    /\ UNCHANGED evars

\* updateItem under the lock: the loop over items, items[i] = updatedItem on
\* the first match, 404 "Item not found" when there is none.
UpdateItem(p) ==
    /\ pc[p] = "updateItem"
    /\ LET i == FirstMatch(items, local[p].id) IN
         IF i # 0
         THEN /\ items' = [items EXCEPT ![i] = local[p]]
              /\ pc' = [pc EXCEPT ![p] = "publish"]
              /\ pending' = Append(pending, p)
              /\ UNCHANGED resp
         ELSE /\ resp' = [resp EXCEPT ![p] =
                     ErrorResponse(StatusNotFound, "Item not found")]
              /\ pc' = [pc EXCEPT ![p] = "unlock"]
              /\ UNCHANGED pending
              /\ UNCHANGED items
    /\ UNCHANGED <<itemsNil, nextID, mutex, eventPublisher, mainPc, queue, req,
                   body, local, pubResult, served, createLog,
                   removed, seqStore, seqResp>>
    /\ UNCHANGED evars

\* deleteItem giving the id back: nextID is decremented.
DeleteItem_ReuseID(p) ==
    /\ pc[p] = "deleteItem"
    /\ LET i == FirstMatch(items, local[p].id) IN
         IF i # 0
         THEN /\ items' = RemoveAt(items, i)
              /\ nextID' = nextID - 1
              /\ local' = [local EXCEPT ![p] = items[i]]
              /\ removed' = removed \cup {items[i].id}
              /\ pc' = [pc EXCEPT ![p] = "publish"]
              /\ pending' = Append(pending, p)
              /\ UNCHANGED resp
         ELSE /\ resp' = [resp EXCEPT ![p] =
                     ErrorResponse(StatusNotFound, "Item not found")]
              /\ pc' = [pc EXCEPT ![p] = "unlock"]
              /\ UNCHANGED pending
              /\ UNCHANGED <<items, nextID, local, removed>>
    /\ UNCHANGED <<itemsNil, mutex, eventPublisher, mainPc, queue, req,
                   body, pubResult, served, createLog, seqStore, seqResp>>
    /\ UNCHANGED evars

\* deleteItem answering with the item of the request body instead of the
\* loop variable.
DeleteItem_EchoBody(p) ==
    /\ pc[p] = "deleteItem"
    /\ LET i == FirstMatch(items, local[p].id) IN
         IF i # 0
         THEN /\ items' = RemoveAt(items, i)
              /\ removed' = removed \cup {items[i].id}
              /\ pc' = [pc EXCEPT ![p] = "publish"]
              /\ pending' = Append(pending, p)
              /\ UNCHANGED resp
         ELSE /\ resp' = [resp EXCEPT ![p] =
                     ErrorResponse(StatusNotFound, "Item not found")]
              /\ pc' = [pc EXCEPT ![p] = "unlock"]
              /\ UNCHANGED pending
              /\ UNCHANGED <<items, removed>>
    /\ UNCHANGED <<itemsNil, nextID, mutex, eventPublisher, mainPc, queue, req,
                   body, local, pubResult, served, createLog, seqStore, seqResp>>
    /\ UNCHANGED evars

\* deleteItem under the lock: the loop over items, the first match is cut
\* out of the slice and kept in the loop variable item; 404 when there is none.
DeleteItem(p) ==
    /\ pc[p] = "deleteItem"
    /\ LET i == FirstMatch(items, local[p].id) IN
         IF i # 0
         THEN /\ items' = RemoveAt(items, i)
              /\ local' = [local EXCEPT ![p] = items[i]]
              /\ removed' = removed \cup {items[i].id}
              /\ pc' = [pc EXCEPT ![p] = "publish"]
              /\ pending' = Append(pending, p)
              /\ UNCHANGED resp
         ELSE /\ resp' = [resp EXCEPT ![p] =
                     ErrorResponse(StatusNotFound, "Item not found")]
              /\ pc' = [pc EXCEPT ![p] = "unlock"]
              /\ UNCHANGED pending
              /\ UNCHANGED <<items, local, removed>>
    /\ UNCHANGED <<itemsNil, nextID, mutex, eventPublisher, mainPc, queue, req,
                   body, pubResult, served, createLog, seqStore, seqResp>>
    /\ UNCHANGED evars

\* s without the element x.
Without(s, x) == SelectSeq(s, LAMBDA y : y # x)

\* The event type each mutating handler publishes.
EventTypeOf(h) ==
    CASE h = "addItem" -> EventItemCreated
      [] h = "updateItem" -> EventItemUpdated
      [] h = "deleteItem" -> EventItemDeleted

\* Publish without the check for a nil channel.
Publish_NoNilCheck(ep, event, accepted, q) ==
    IF accepted THEN [err |-> FALSE, queue |-> Append(q, Marshal(event))]
    ELSE [err |-> TRUE, queue |-> q]

\* EventPublisher.Publish: an error when the channel is nil; otherwise the
\* event is marshalled and handed to channel.Publish, which the broker
\* accepts (accepted) or fails. Returns the error and the queue afterwards.
Publish(ep, event, accepted, q) ==
    IF ep.channel = "nil" THEN [err |-> TRUE, queue |-> q]
    ELSE IF accepted THEN [err |-> FALSE, queue |-> Append(q, Marshal(event))]
    ELSE [err |-> TRUE, queue |-> q]

\* The publish block without the check eventPublisher != nil: Publish is
\* attempted on the nil publisher and fails.
PublishEvent_NoNilCheck(p) ==
    /\ pc[p] = "publish"
    /\ IF eventPublisher = NilPublisher
       THEN /\ pubResult' = [pubResult EXCEPT ![p] = "err"]
            /\ UNCHANGED queue
       ELSE \E accepted \in BOOLEAN :
              LET r == Publish(eventPublisher,
                               ItemEvent(EventTypeOf(Handler(req[p])), local[p], Now),
                               accepted, queue) IN
              /\ queue' = r.queue
              /\ pubResult' = [pubResult EXCEPT ![p] = IF r.err THEN "err" ELSE "ok"]
    /\ pc' = [pc EXCEPT ![p] = "respond"]
    /\ pending' = Without(pending, p)
    /\ UNCHANGED <<store, mutex, eventPublisher, mainPc, req, body, local, resp,
                   served, createLog, removed, seqStore, seqResp>>
    /\ UNCHANGED evars

\* The publish block building the event from the decoded request body
\* instead of the record the handler stored or removed.
PublishEvent_BodyItem(p) ==
    /\ pc[p] = "publish"
    /\ IF eventPublisher = NilPublisher
       THEN UNCHANGED <<queue, pubResult>>
       ELSE \E accepted \in BOOLEAN :
              LET r == Publish(eventPublisher,
                               ItemEvent(EventTypeOf(Handler(req[p])),
                                         DecodeItem(body[p]), Now),
                               accepted, queue) IN
              /\ queue' = r.queue
              /\ pubResult' = [pubResult EXCEPT ![p] = IF r.err THEN "err" ELSE "ok"]
    /\ pc' = [pc EXCEPT ![p] = "respond"]
    /\ pending' = Without(pending, p)
    /\ UNCHANGED <<store, mutex, eventPublisher, mainPc, req, body, local, resp,
                   served, createLog, removed, seqStore, seqResp>>
    /\ UNCHANGED evars

\* "if eventPublisher != nil { ... Publish(event) ... log.Printf on error }",
\* the same block in addItem, updateItem and deleteItem.
PublishEvent(p) ==
    /\ pc[p] = "publish"
    /\ IF eventPublisher = NilPublisher
       THEN UNCHANGED <<queue, pubResult>>
       ELSE \E accepted \in BOOLEAN :
              LET r == Publish(eventPublisher,
                               ItemEvent(EventTypeOf(Handler(req[p])), local[p], Now),
                               accepted, queue) IN
              /\ queue' = r.queue
              /\ pubResult' = [pubResult EXCEPT ![p] = IF r.err THEN "err" ELSE "ok"]
    /\ pc' = [pc EXCEPT ![p] = "respond"]
    /\ pending' = Without(pending, p)
    /\ UNCHANGED <<store, mutex, eventPublisher, mainPc, req, body, local, resp,
                   served, createLog, removed, seqStore, seqResp>>
    /\ UNCHANGED evars

\* A handler that turns a Publish error into a 500.
Respond_FailOnPublishError(p) ==
    /\ pc[p] = "respond"
    /\ resp' = [resp EXCEPT ![p] =
                IF pubResult[p] = "err"
                THEN ErrorResponse(500, "Failed to publish event")
                ELSE ItemResponse(SuccessStatus(Handler(req[p])), local[p])]
    /\ pc' = [pc EXCEPT ![p] = "unlock"]
    /\ UNCHANGED <<store, mutex, eventPublisher, mainPc, queue, req, body, local,
                   pubResult, served, hist>>
    /\ UNCHANGED evars

\* json.NewEncoder(w).Encode(item) at the end of a mutating handler.
Respond(p) ==
    /\ pc[p] = "respond"
    /\ resp' = [resp EXCEPT ![p] =
                ItemResponse(SuccessStatus(Handler(req[p])), local[p])]
    /\ pc' = [pc EXCEPT ![p] = "unlock"]
    /\ UNCHANGED <<store, mutex, eventPublisher, mainPc, queue, req, body, local,
                   pubResult, served, hist>>
    /\ UNCHANGED evars

\* ------------------------------------------------------------ specification
Next ==
    \/ Main
    \/ \E p \in Procs : Dispatch(p)
    \/ \E p \in Procs : Decode(p)
    \/ \E p \in Procs : Lock(p)
    \/ \E p \in Procs : GetItems(p)
    \/ \E p \in Procs : AddAssignID(p)
    \/ \E p \in Procs : AddIncrement(p)
    \/ \E p \in Procs : AddAppend(p)
    \/ \E p \in Procs : UpdateItem(p)
    \/ \E p \in Procs : DeleteItem(p)
    \/ \E p \in Procs : PublishEvent(p)
    \/ \E p \in Procs : Respond(p)
    \/ \E p \in Procs : Unlock(p)

Spec == Init /\ [][Next]_vars

\* The steps of the goroutine that serves p's request, from the first
\* statement of the handler to the deferred Unlock.
Run(p) ==
    \/ Decode(p)
    \/ Lock(p)
    \/ GetItems(p)
    \/ AddAssignID(p)
    \/ AddIncrement(p)
    \/ AddAppend(p)
    \/ UpdateItem(p)
    \/ DeleteItem(p)
    \/ PublishEvent(p)
    \/ Respond(p)
    \/ Unlock(p)

\* The server under the Go scheduler: a goroutine that can take a step is
\* not left waiting forever, and every call of Publish returns.
SpecFair == Init /\ [][Next]_vars /\ \A p \in Procs : WF_vars(Run(p))

\* --------------------------------------------------- events.go on its own
\* The publisher and the consumer as objects another process (the example
\* consumer, a test) constructs and calls. The server's variables stay as
\* they are.
handlers == <<items, itemsNil, nextID, mutex, mainPc, pc, req, body, local,
              pubResult, resp, served, createLog, removed, seqStore, seqResp,
              pending>>
server == <<handlers, codec>>

\* NewEventConsumer(amqpURL): the same three steps as NewEventPublisher.
NewEventConsumer(outcome) ==
    IF outcome = "ok"
    THEN [nil |-> FALSE, conn |-> "open", channel |-> "open", queue |-> "item_events"]
    ELSE NilPublisher

\* A process calls NewEventPublisher; on an error it has no object and goes
\* on with the one it had.
NewPublisher ==
    /\ eventPublisher = ZeroObject
    /\ \E outcome \in DialOutcomes :
         LET ep == NewEventPublisher(outcome) IN
         /\ eventPublisher' = IF ep = NilPublisher THEN eventPublisher ELSE ep
         /\ ret' = [op |-> "NewEventPublisher", err |-> ep = NilPublisher,
                    closed |-> Cleanup(outcome), opened |-> Opened(outcome)]
    /\ UNCHANGED <<server, queue, eventConsumer, conPc, delivery, sigs, handlerRet, calls,
                   acked, dropped, published>>

\* A process calls NewEventConsumer.
NewConsumer ==
    /\ eventConsumer = ZeroObject
    /\ conPc = "none"
    /\ \E outcome \in DialOutcomes :
         LET ec == NewEventConsumer(outcome) IN
         /\ eventConsumer' = IF ec = NilPublisher THEN eventConsumer ELSE ec
         /\ ret' = [op |-> "NewEventConsumer", err |-> ec = NilPublisher,
                    closed |-> Cleanup(outcome), opened |-> Opened(outcome)]
    /\ UNCHANGED <<server, queue, eventPublisher, conPc, delivery, sigs, handlerRet, calls,
                   acked, dropped, published>>

\* A process calls Publish(event) on the publisher; the broker accepts no
\* message on a closed channel.
PublishCall ==
    /\ Cardinality(published) < MaxMessages
    /\ \E event \in Events, accepted \in BOOLEAN :
         /\ Marshal(event) \notin published
         /\ accepted => eventPublisher.channel # "closed"
         /\ LET r == Publish(eventPublisher, event, accepted, queue) IN
              /\ queue' = r.queue
              /\ published' = IF r.err THEN published
                              ELSE published \cup {Marshal(event)}
              /\ ret' = [op |-> "Publish", err |-> r.err, closed |-> << >>,
                         opened |-> << >>]
    /\ UNCHANGED <<server, eventPublisher, eventConsumer, conPc, delivery, sigs,
                   handlerRet, calls, acked, dropped>>

\* Another producer puts a message into item_events.
ForeignPublish ==
    /\ Cardinality(published) < MaxMessages
    /\ \E b \in WireBodies \ published :
         /\ queue' = Append(queue, b)
         /\ published' = published \cup {b}
    /\ UNCHANGED <<server, eventPublisher, eventConsumer, conPc, delivery, sigs,
                   handlerRet, calls, acked, dropped, ret>>

\* What closing one resource does: nothing to a nil one; an open one is closed
\* whether or not the call reports an error.
Released(r) == IF r = "nil" THEN "nil" ELSE "closed"

\* EventPublisher.Close and EventConsumer.Close (the same code): close the
\* channel if it is not nil and return its error, then the same for the
\* connection. chOk and connOk say whether the library's Close succeeds.
\* Returns the object, the error and the resources Close was called on.
Close(obj, chOk, connOk) ==
    IF obj.channel # "nil" /\ ~chOk
    THEN [obj |-> [obj EXCEPT !.channel = Released(obj.channel)], err |-> TRUE,
          closed |-> <<"channel">>]
    ELSE LET o1 == [obj EXCEPT !.channel = Released(obj.channel)]
             c1 == IF obj.channel # "nil" THEN <<"channel">> ELSE << >>
         IN  IF o1.conn # "nil" /\ ~connOk
             THEN [obj |-> [o1 EXCEPT !.conn = Released(o1.conn)], err |-> TRUE,
                   closed |-> Append(c1, "conn")]
             ELSE [obj |-> [o1 EXCEPT !.conn = Released(o1.conn)], err |-> FALSE,
                   closed |-> IF o1.conn # "nil" THEN Append(c1, "conn") ELSE c1]

\* The library's Close succeeds only on a resource that is still open.
CloseOutcomes(r) == IF r = "open" THEN BOOLEAN ELSE {FALSE}

\* A process calls Close on the publisher.
ClosePublisher ==
    /\ \E chOk \in CloseOutcomes(eventPublisher.channel),
          connOk \in CloseOutcomes(eventPublisher.conn) :
         LET r == Close(eventPublisher, chOk, connOk) IN
         /\ eventPublisher' = r.obj
         /\ ret' = [op |-> "Publisher.Close", err |-> r.err, closed |-> r.closed,
                    opened |-> << >>]
    /\ UNCHANGED <<server, queue, eventConsumer, conPc, delivery, sigs, handlerRet, calls,
                   acked, dropped, published>>

\* A process calls Close on the consumer.
CloseConsumer ==
    /\ \E chOk \in CloseOutcomes(eventConsumer.channel),
          connOk \in CloseOutcomes(eventConsumer.conn) :
         LET r == Close(eventConsumer, chOk, connOk) IN
         /\ eventConsumer' = r.obj
         /\ ret' = [op |-> "Consumer.Close", err |-> r.err, closed |-> r.closed,
                    opened |-> << >>]
    /\ UNCHANGED <<server, queue, eventPublisher, conPc, delivery, sigs, handlerRet, calls,
                   acked, dropped, published>>

\* Consume without the check for a nil channel.
Consume_NoNilCheck(ec, registered) ==
    IF ~registered THEN [err |-> TRUE, loop |-> FALSE]
    ELSE [err |-> FALSE, loop |-> TRUE]

\* EventConsumer.Consume up to the go statement: an error on a nil channel
\* and when channel.Consume fails (registered says it did not); otherwise the
\* loop goroutine is started.
Consume(ec, registered) ==
    IF ec.channel = "nil" THEN [err |-> TRUE, loop |-> FALSE]
    ELSE IF ~registered THEN [err |-> TRUE, loop |-> FALSE]
    ELSE [err |-> FALSE, loop |-> TRUE]

\* A process calls Consume(handler); the broker registers no consumer on a
\* closed channel.
ConsumeCall ==
    /\ conPc = "none"
    /\ \E registered \in BOOLEAN :
         /\ registered => eventConsumer.channel # "closed"
         /\ LET r == Consume(eventConsumer, registered) IN
              /\ conPc' = IF r.loop THEN "waiting" ELSE conPc
              /\ ret' = [op |-> "Consume", err |-> r.err, closed |-> << >>,
                         opened |-> << >>]
    /\ UNCHANGED <<server, queue, eventPublisher, eventConsumer, delivery, sigs,
                   handlerRet, calls, acked, dropped, published>>

\* The loop taking the next delivery while handler still works on the last
\* one, as it would with "go handler(event)".
Receive_Prefetch ==
    /\ conPc \in {"waiting", "handle"}
    /\ eventConsumer.channel = "open"
    /\ queue # << >>
    /\ delivery' = Head(queue)
    /\ queue' = Tail(queue)
    /\ sigs' = << >>
    /\ handlerRet' = "none"
    /\ conPc' = "unmarshal"
    /\ UNCHANGED <<server, eventPublisher, eventConsumer, calls, acked, dropped,
                   published, ret>>

\* "for d := range msgs": the broker hands the loop the next message.
Receive ==
    /\ conPc = "waiting"
    /\ eventConsumer.channel = "open"
    /\ queue # << >>
    /\ delivery' = Head(queue)
    /\ queue' = Tail(queue)
    /\ sigs' = << >>
    /\ handlerRet' = "none"
    /\ conPc' = "unmarshal"
    /\ UNCHANGED <<server, eventPublisher, eventConsumer, calls, acked, dropped,
                   published, ret>>

\* The loop body without the continue after the Nack: the zero event goes on
\* to handler.
UnmarshalDelivery_NoContinue ==
    /\ conPc = "unmarshal"
    /\ IF Unmarshal(delivery).err
       THEN /\ sigs' = Append(sigs, "nack_drop")
            /\ dropped' = dropped \cup {delivery}
            /\ conPc' = "handle"
       ELSE /\ conPc' = "handle"
            /\ UNCHANGED <<sigs, dropped>>
    /\ UNCHANGED <<server, queue, eventPublisher, eventConsumer, delivery,
                   handlerRet, calls, acked, published, ret>>

\* The loop body rejecting a body that does not unmarshal with
\* d.Nack(false, true): the broker requeues it.
UnmarshalDelivery_Requeue ==
    /\ conPc = "unmarshal"
    /\ IF Unmarshal(delivery).err
       THEN /\ sigs' = Append(sigs, "nack_requeue")
            /\ queue' = Append(queue, delivery)
            /\ conPc' = "waiting"
       ELSE /\ conPc' = "handle"
            /\ UNCHANGED <<sigs, queue>>
    /\ UNCHANGED <<server, eventPublisher, eventConsumer, delivery, dropped,
                   handlerRet, calls, acked, published, ret>>

\* The loop body up to the call of handler: a body that does not unmarshal is
\* rejected with d.Nack(false, false) and the loop continues.
UnmarshalDelivery ==
    /\ conPc = "unmarshal"
    /\ IF Unmarshal(delivery).err
       THEN /\ sigs' = Append(sigs, "nack_drop")
            /\ dropped' = dropped \cup {delivery}
            /\ conPc' = "waiting"
       ELSE /\ conPc' = "handle"
            /\ UNCHANGED <<sigs, dropped>>
    /\ UNCHANGED <<server, queue, eventPublisher, eventConsumer, delivery,
                   handlerRet, calls, acked, published, ret>>

\* The broker puts a requeued message back: at its old place at the head, or
\* behind the messages that are ready.
Requeued(q, b) == {<<b>> \o q, Append(q, b)}

\* The loop body with a retry limit: after MaxCalls failed calls the message
\* is rejected without requeue.
HandleDelivery_MaxRetries ==
    /\ conPc = "handle"
    /\ calls' = [calls EXCEPT ![delivery] =
                   IF @ < MaxCalls THEN @ + 1 ELSE @]
    /\ \E handlerErr \in BOOLEAN :
         /\ handlerRet' = IF handlerErr THEN "err" ELSE "ok"
         /\ IF handlerErr
            THEN IF calls[delivery] >= MaxCalls - 1
                 THEN /\ sigs' = Append(sigs, "nack_drop")
                      /\ dropped' = dropped \cup {delivery}
                      /\ UNCHANGED <<acked, queue>>
                 ELSE /\ sigs' = Append(sigs, "nack_requeue")
                      /\ queue' \in Requeued(queue, delivery)
                      /\ UNCHANGED <<acked, dropped>>
            ELSE /\ sigs' = Append(sigs, "ack")
                 /\ acked' = acked \cup {delivery}
                 /\ UNCHANGED <<queue, dropped>>
    /\ conPc' = "waiting"
    /\ UNCHANGED <<server, eventPublisher, eventConsumer, delivery,
                   published, ret>>

\* handler(event), then d.Nack(false, true) on an error and d.Ack(false)
\* otherwise.
HandleDelivery ==
    /\ conPc = "handle"
    /\ calls' = [calls EXCEPT ![delivery] =
                   IF @ < MaxCalls THEN @ + 1 ELSE @]
    /\ \E handlerErr \in BOOLEAN :
         /\ handlerRet' = IF handlerErr THEN "err" ELSE "ok"
         /\ IF handlerErr
            THEN /\ sigs' = Append(sigs, "nack_requeue")
                 /\ queue' \in Requeued(queue, delivery)
                 /\ UNCHANGED acked
            ELSE /\ sigs' = Append(sigs, "ack")
                 /\ acked' = acked \cup {delivery}
                 /\ UNCHANGED queue
    /\ conPc' = "waiting"
    /\ UNCHANGED <<server, eventPublisher, eventConsumer, delivery, dropped,
                   published, ret>>

\* The range loop ends when the delivery channel is closed, which the
\* library does when the AMQP channel is closed.
LoopEnd ==
    /\ conPc = "waiting"
    /\ eventConsumer.channel = "closed"
    /\ conPc' = "ended"
    /\ UNCHANGED <<server, queue, eventPublisher, eventConsumer, delivery, sigs,
                   handlerRet, calls, acked, dropped, published, ret>>

InitEvents ==
    /\ ServerInit
    /\ eventPublisher = ZeroObject
    /\ ConsumerInit
    /\ CodecIdle

NextEvents ==
    \/ NewPublisher
    \/ NewConsumer
    \/ PublishCall
    \/ ForeignPublish
    \/ ClosePublisher
    \/ CloseConsumer
    \/ ConsumeCall
    \/ Receive
    \/ UnmarshalDelivery
    \/ HandleDelivery
    \/ LoopEnd

SpecEvents == InitEvents /\ [][NextEvents]_vars

\* The consumer process alone, with the scheduling it runs under: the loop
\* goroutine is not starved, and the broker delivers a ready message to a
\* consumer that waits on an open channel.
NextConsumer ==
    \/ NewConsumer
    \/ ForeignPublish
    \/ CloseConsumer
    \/ ConsumeCall
    \/ Receive
    \/ UnmarshalDelivery
    \/ HandleDelivery
    \/ LoopEnd

SpecConsumerFair ==
    /\ InitEvents
    /\ [][NextConsumer]_vars
    /\ WF_vars(Receive)
    /\ WF_vars(UnmarshalDelivery)
    /\ WF_vars(HandleDelivery)
    /\ WF_vars(LoopEnd)

\* ------------------------------------------------ serialization on its own
\* TestEventSerialization and ValidateEventStructure: an event is marshalled
\* and the bytes are unmarshalled into a fresh ItemEvent.
EventTypes == {EventItemCreated, EventItemUpdated, EventItemDeleted}
\* The events the tests start from.
TestEvents ==
    {ItemEvent(t, Item(i, n), Time(w, m)) :
        t \in EventTypes, i \in 0 .. MaxBodyID, n \in Names,
        w \in {0, 1}, m \in {0, 1}}
\* Bytes of other producers: no JSON, a JSON string, objects with members
\* missing, doubled, unknown or of the wrong kind.
ForeignData ==
    {Garbage, JString("item.created"), JObject(<< >>),
     JObject(<< <<"type", JString(EventItemUpdated)>> >>),
     JObject(<< <<"type", JNumber(1)>> >>),
     JObject(<< <<"item", JString("a")>> >>),
     JObject(<< <<"item", JObject(<< <<"id", JString("a")>> >>)>> >>),
     JObject(<< <<"item", JObject(<< <<"id", JNumber(1)>>, <<"id", JNumber(2)>> >>)>>,
                <<"extra", JNumber(1)>> >>),
     JObject(<< <<"timestamp", JString("yesterday")>> >>)}

\* data, err := json.Marshal(originalEvent)
MarshalEvent ==
    /\ data = NoData
    /\ data' = Marshal(originalEvent)
    /\ UNCHANGED <<handlers, consumer, eventPublisher, queue, originalEvent,
                   unmarshaled>>

\* The bytes come from somewhere else.
ForeignBytes ==
    /\ data = NoData
    /\ data' \in ForeignData
    /\ UNCHANGED <<handlers, consumer, eventPublisher, queue, originalEvent,
                   unmarshaled>>

\* err := json.Unmarshal(data, &deserializedEvent)
UnmarshalEvent ==
    /\ data # NoData
    /\ ~unmarshaled.done
    /\ LET r == Unmarshal(data) IN
         unmarshaled' = [done |-> TRUE, err |-> r.err, event |-> r.event]
    /\ UNCHANGED <<handlers, consumer, eventPublisher, queue, originalEvent, data>>

InitCodec ==
    /\ ServerInit
    /\ eventPublisher = ZeroObject
    /\ ConsumerInit
    /\ originalEvent \in TestEvents
    /\ data = NoData
    /\ unmarshaled = NotDecoded

NextCodec ==
    \/ MarshalEvent
    \/ ForeignBytes
    \/ UnmarshalEvent

SpecCodec == InitCodec /\ [][NextCodec]_vars

\* -------------------------------------------------------------- properties
\* The positions at which a goroutine holds the mutex.
CritPcs == {"getItems", "addItem", "add_inc", "add_append", "updateItem",
            "deleteItem", "publish", "respond", "unlock"}
\* The store as one value.
StoreNow == [items |-> items, itemsNil |-> itemsNil, nextID |-> nextID]
\* The item the request body of p spells out.
Sent(p) == DecodeItem(body[p])
\* p runs handler h and is at one of the positions in at.
At(p, h, at) == Handler(req[p]) = h /\ pc[p] \in at
\* p leaves position at in this step.
Leaves(p, h, at) == At(p, h, {at}) /\ pc'[p] # at
\* s holds a record with this id.
HasId(s, id) == \E i \in 1 .. Len(s) : s[i].id = id

\* C1: the k-th create takes id k, answers 201 with {k, submitted name}, and
\* appends exactly that record to the end of the store.
C1_State ==
    /\ \A k \in 1 .. Len(createLog) : createLog[k] = k
    /\ \A p \in Procs :
         LET rec == Item(Len(createLog), Sent(p).name) IN
         /\ At(p, "addItem", {"publish", "respond", "unlock"}) =>
              /\ Len(items) >= 1
              /\ items[Len(items)] = rec
         /\ At(p, "addItem", {"unlock"}) => resp[p] = ItemResponse(StatusCreated, rec)
C1_Step ==
    \A p \in Procs :
      Leaves(p, "addItem", "add_append") =>
        items' = Append(items, Item(Len(createLog), Sent(p).name))
\* C1: in every state the ids taken by create are 1, 2, 3, ... and a create
\* answers 201 with its record; every append step adds exactly that record last.
C1_CreateAssignsNextId == []C1_State /\ [][C1_Step]_vars
\* The second create has answered with id 2.
C1_Witness ==
    \E p \in Procs :
      /\ At(p, "addItem", {"unlock"})
      /\ resp[p].kind = "item"
      /\ resp[p].item.id = 2

\* C2: no two stored records share an id, and no id is handed out twice by
\* create, also not after the record that held it was deleted.
C2_UniqueIds ==
    /\ \A i, j \in 1 .. Len(items) : i # j => items[i].id # items[j].id
    /\ \A i, j \in 1 .. Len(createLog) : i # j => createLog[i] # createLog[j]
    /\ \A id \in removed : ~HasId(items, id)
\* A create has stored its record after some record was deleted.
C2_Witness ==
    \E p \in Procs :
      /\ At(p, "addItem", {"publish"})
      /\ removed # {}

\* C3: update of an existing id replaces exactly that record by {id, name} of
\* the request (also when the name is empty), keeps every other record, the
\* order and the length, and answers 200 with the updated record.
C3_Step ==
    \A p \in Procs :
      (Leaves(p, "updateItem", "updateItem") /\ HasId(items, Sent(p).id)) =>
        /\ Len(items') = Len(items)
        /\ \A j \in 1 .. Len(items) :
             items'[j] = IF items[j].id = Sent(p).id THEN Sent(p) ELSE items[j]
        /\ nextID' = nextID
        /\ pc'[p] = "publish"
C3_State ==
    \A p \in Procs :
      (At(p, "updateItem", {"unlock"}) /\ HasId(items, Sent(p).id)) =>
        /\ resp[p] = ItemResponse(StatusOK, Sent(p))
        /\ \E i \in 1 .. Len(items) : items[i] = Sent(p)
\* C3: every update step on a stored id replaces that record alone, and the
\* handler then answers 200 with it.
C3_UpdateReplacesOne == []C3_State /\ [][C3_Step]_vars
\* An update to the empty name has answered 200 while two records are stored.
C3_Witness ==
    \E p \in Procs :
      /\ At(p, "updateItem", {"unlock"})
      /\ resp[p] = ItemResponse(StatusOK, Sent(p))
      /\ Sent(p).name = ""
      /\ Len(items) = 2

\* C4: delete of an existing id removes exactly that record, answers 200 with
\* the record as stored, shortens the sequence by one and keeps the rest in
\* order; a delete of an id that was deleted before answers 404.
C4_Step ==
    \A p \in Procs :
      /\ (Leaves(p, "deleteItem", "deleteItem") /\ HasId(items, Sent(p).id)) =>
           /\ Len(items') = Len(items) - 1
           /\ items' = SelectSeq(items, LAMBDA it : it.id # Sent(p).id)
           /\ \E i \in 1 .. Len(items) : items[i].id = Sent(p).id /\ local'[p] = items[i]
           /\ nextID' = nextID
           /\ pc'[p] = "publish"
      /\ (Leaves(p, "deleteItem", "deleteItem") /\ Sent(p).id \in removed) =>
           resp'[p].status = StatusNotFound
      /\ Leaves(p, "deleteItem", "respond") =>
           resp'[p] = ItemResponse(StatusOK, local[p])
C4_State ==
    \A p \in Procs :
      At(p, "deleteItem", {"publish", "respond", "unlock"}) =>
        /\ local[p].id = Sent(p).id
        /\ ~HasId(items, Sent(p).id)
\* C4: every delete step on a stored id removes that record alone and answers
\* with it as stored; a delete of a removed id answers 404.
C4_DeleteRemovesOne == []C4_State /\ [][C4_Step]_vars
\* A delete has answered 200 with a stored name that differs from the name in
\* its request body, and another record is still stored.
C4_Witness ==
    \E p \in Procs :
      /\ At(p, "deleteItem", {"unlock"})
      /\ resp[p].kind = "item"
      /\ resp[p].status = StatusOK
      /\ resp[p].item.name # Sent(p).name
      /\ Len(items) >= 1

\* C5: an update or delete of an id that is not stored answers 404, changes
\* neither the item sequence nor nextID, and publishes no event.
C5_Step ==
    \A p \in Procs :
      /\ ((Leaves(p, "updateItem", "updateItem") \/ Leaves(p, "deleteItem", "deleteItem"))
            /\ ~HasId(items, Sent(p).id)) =>
           /\ resp'[p] = ErrorResponse(StatusNotFound, "Item not found")
           /\ pc'[p] = "unlock"
           /\ UNCHANGED <<items, itemsNil, nextID, queue>>
      /\ (pc[p] = "unlock" /\ resp[p].status = StatusNotFound /\ pc'[p] # "unlock") =>
           /\ pc'[p] = "idle"
           /\ UNCHANGED <<items, itemsNil, nextID, queue>>
C5_State ==
    \A p \in Procs :
      (pc[p] = "unlock" /\ resp[p].status = StatusNotFound) =>
        /\ pubResult[p] = "none"
        /\ StoreNow = seqStore
        /\ ~HasId(items, Sent(p).id)
\* C5: every not-found step of update and delete answers 404 and leaves
\* items, nextID and the queue as they were.
C5_NotFoundChangesNothing == []C5_State /\ [][C5_Step]_vars
\* A request has answered 404 on a non-empty store with a working publisher.
C5_Witness ==
    \E p \in Procs :
      /\ pc[p] = "unlock"
      /\ resp[p].status = StatusNotFound
      /\ items # << >>
      /\ eventPublisher # NilPublisher

\* C6: list answers 200 with exactly the current item sequence, in insertion
\* order, and changes neither the sequence nor nextID. (The nil slice of a
\* store nothing was ever added to is written as null, which a client reads
\* back as the empty sequence.)
C6_Step ==
    \A p \in Procs :
      Leaves(p, "getItems", "getItems") =>
        /\ resp'[p].status = StatusOK
        /\ resp'[p].kind \in {"array", "null"}
        /\ DecodeList(resp'[p]) = items
        /\ UNCHANGED <<items, itemsNil, nextID, queue>>
C6_State ==
    \A p \in Procs :
      At(p, "getItems", {"unlock"}) =>
        /\ DecodeList(resp[p]) = items
        /\ \A i, j \in 1 .. Len(items) : i < j => items[i].id < items[j].id
\* C6: every list step answers 200 with the items as they are and changes
\* nothing.
C6_ListReturnsSequence == []C6_State /\ [][C6_Step]_vars
\* A list request has answered with two records.
C6_Witness ==
    \E p \in Procs :
      /\ At(p, "getItems", {"unlock"})
      /\ resp[p].kind = "array"
      /\ Len(resp[p].list) = 2

\* C7: the four store operations run under the one mutex: at most one handler
\* is between Lock and Unlock, and store and responses are those of running
\* the handlers one at a time in the order they took the mutex.
C7_Serialized ==
    /\ Cardinality({p \in Procs : pc[p] \in CritPcs}) <= 1
    /\ \A p \in Procs : pc[p] \in CritPcs <=> mutex = p
    /\ mutex = Unlocked => StoreNow = seqStore
    /\ \A p \in Procs : pc[p] = "unlock" => resp[p] = seqResp[p]
\* One create is between reading and incrementing nextID while another
\* create waits for the mutex.
C7_Witness ==
    \E p, q \in Procs :
      /\ p # q
      /\ At(p, "addItem", {"add_inc"})
      /\ At(q, "addItem", {"lock"})

\* C8: every mutating request publishes its event after it released the
\* mutex; no request holds the mutex during the call to the broker.
C8_PublishAfterUnlock ==
    \A p \in Procs :
      (pc[p] = "publish" /\ eventPublisher # NilPublisher) => mutex # p

\* C9: a Publish error changes nothing for the client: status and body are
\* those of the handler run without publishing, and the mutation is kept.
C9_State ==
    \A p \in Procs :
      pubResult[p] = "err" =>
        /\ pc[p] \in {"respond", "unlock"}
        /\ StoreNow = seqStore
        /\ pc[p] = "unlock" =>
             /\ resp[p] = ItemResponse(SuccessStatus(Handler(req[p])), local[p])
             /\ resp[p] = seqResp[p]
C9_Step ==
    \A p \in Procs :
      (pc[p] = "publish" /\ pc'[p] # "publish") =>
        /\ pc'[p] = "respond"
        /\ UNCHANGED <<items, itemsNil, nextID>>
\* C9: after a Publish error the response and the store are those of the
\* handler run without publishing.
C9_PublishErrorAbsorbed == []C9_State /\ [][C9_Step]_vars
\* A create has answered 201 although its Publish returned an error.
C9_Witness ==
    \E p \in Procs :
      /\ pubResult[p] = "err"
      /\ At(p, "addItem", {"unlock"})
      /\ resp[p].status = StatusCreated

\* C10: every successful create, update and delete has its event of the
\* matching type in the item_events queue (no event loss).
C10_NoEventLoss ==
    \A p \in Procs :
      (pc[p] = "unlock" /\ resp[p].kind = "item") =>
        /\ pubResult[p] = "ok"
        /\ Len(queue) >= 1
        /\ queue[Len(queue)] = Marshal(ItemEvent(EventTypeOf(Handler(req[p])), resp[p].item, Now))

\* A message is somewhere in s.
InSeq(s, b) == \E i \in 1 .. Len(s) : s[i] = b
\* The loop is working on message b.
InHand(b) == delivery = b /\ conPc \in {"unmarshal", "handle"}

\* C11: each delivery gets exactly one signal: a body that does not
\* deserialize is rejected without requeue and handler is not called;
\* otherwise handler is called once and the message is rejected with requeue
\* on an error and acknowledged on success.
C11_State ==
    /\ conPc \in {"unmarshal", "handle"} => sigs = << >>
    /\ (conPc \in {"waiting", "ended"} /\ delivery # NoDelivery) =>
         /\ Len(sigs) = 1
         /\ delivery \notin WireEvents => (sigs = <<"nack_drop">> /\ handlerRet = "none")
         /\ delivery \in WireEvents =>
              \/ sigs = <<"ack">> /\ handlerRet = "ok"
              \/ sigs = <<"nack_requeue">> /\ handlerRet = "err"
C11_Step ==
    /\ (conPc = "unmarshal" /\ conPc' # "unmarshal" /\ delivery \notin WireEvents) =>
         /\ conPc' = "waiting"
         /\ calls' = calls
         /\ delivery \in dropped'
         /\ ~InSeq(queue', delivery)
    /\ (conPc = "handle" /\ conPc' # "handle") =>
         /\ calls'[delivery] = IF calls[delivery] < MaxCalls
                                THEN calls[delivery] + 1 ELSE MaxCalls
         /\ \A b \in WireBodies \ {delivery} : calls'[b] = calls[b]
         /\ handlerRet' = "ok" => (delivery \in acked' /\ ~InSeq(queue', delivery))
         /\ handlerRet' = "err" => (delivery \notin acked' /\ InSeq(queue', delivery))
\* C11: in every state a finished delivery carries its one signal, and every
\* step of the loop body signals as the body and the handler's result demand.
C11_OneOutcomePerDelivery == []C11_State /\ [][C11_Step]_vars
\* A body that did not deserialize was dropped and an event was acknowledged
\* on its second delivery.
C11_Witness ==
    /\ Garbage \in dropped
    /\ \E b \in WireEvents : b \in acked /\ calls[b] = 2

\* C12: a message whose handler fails goes back to the queue, however often
\* it failed before; while no handler call succeeded for it, it is neither
\* acknowledged nor discarded, and it is delivered again.
C12_State ==
    \A b \in WireEvents :
      (b \in published /\ b \notin acked) =>
        /\ b \notin dropped
        /\ InSeq(queue, b) \/ InHand(b)
C12_Step ==
    /\ (conPc = "handle" /\ conPc' # "handle" /\ handlerRet' = "err") =>
         /\ InSeq(queue', delivery)
         /\ acked' = acked
         /\ dropped' = dropped
    /\ \A b \in WireEvents :
         (b \notin acked /\ b \in acked') => (InHand(b) /\ handlerRet' = "ok")
\* The broker decides where a requeued message goes; one that is put back at
\* the head of the queue is taken by the loop again while the channel is open.
C12_Redelivered ==
    \A b \in WireEvents :
      (delivery = b /\ conPc = "waiting" /\ handlerRet = "err"
         /\ queue # << >> /\ Head(queue) = b)
        ~> (InHand(b) \/ eventConsumer.channel # "open")
C13_State ==
    /\ calls[Garbage] = 0
    /\ Garbage \in dropped =>
         /\ ~InSeq(queue, Garbage)
         /\ ~InHand(Garbage)
         /\ Garbage \notin acked
C13_Step ==
    /\ (Garbage \in published /\ ~InSeq(queue, Garbage)) => ~InSeq(queue', Garbage)
    /\ (InHand(Garbage) /\ ~InHand(Garbage)') => Garbage \in dropped'
\* C13: once the broker has handed the message over it never has it again,
\* and the loop lets go of it only by discarding it.
C13_DiscardedForGood == []C13_State /\ [][C13_Step]_vars
\* The loop went on to handle another message after it dropped one.
C13_Witness ==
    /\ Garbage \in dropped
    /\ conPc = "handle"

\* C14: Publish on a publisher with a nil channel returns an error and puts
\* nothing into the queue.
C14_State ==
    (eventPublisher.channel = "nil" /\ ret.op = "Publish") => ret.err
C14_Step ==
    (eventPublisher.channel = "nil" /\ ret'.op = "Publish" /\ ret' # ret) =>
      /\ ret'.err
      /\ queue' = queue
      /\ published' = published
\* C14: as a state and a step property.
C14_PublishNilChannel == []C14_State /\ [][C14_Step]_vars
\* Publish has returned an error on the zero publisher.
C14_Witness ==
    /\ eventPublisher = ZeroObject
    /\ ret.op = "Publish"
    /\ ret.err

\* C15: Consume on a consumer with a nil channel returns an error, registers
\* nothing and starts no loop: handler is never called.
C15_ConsumeNilChannel ==
    eventConsumer.channel = "nil" =>
      /\ conPc = "none"
      /\ delivery = NoDelivery
      /\ \A b \in WireBodies : calls[b] = 0
      /\ acked = {} /\ dropped = {}
      /\ ret.op = "Consume" => ret.err
\* Consume has returned an error on the zero consumer while a message waits.
C15_Witness ==
    /\ eventConsumer = ZeroObject
    /\ ret.op = "Consume"
    /\ ret.err
    /\ queue # << >>

\* C16: Close releases the channel and then the connection whenever they are
\* not nil, and on nil resources it returns no error and does nothing.
C16_CloseReleasesBoth ==
    /\ ret.op = "Publisher.Close" =>
         /\ eventPublisher.channel # "open" /\ eventPublisher.conn # "open"
         /\ ret.closed \in {<< >>, <<"channel">>, <<"conn">>, <<"channel", "conn">>}
         /\ eventPublisher = ZeroObject => (~ret.err /\ ret.closed = << >>)
    /\ ret.op = "Consumer.Close" =>
         /\ eventConsumer.channel # "open" /\ eventConsumer.conn # "open"
         /\ ret.closed \in {<< >>, <<"channel">>, <<"conn">>, <<"channel", "conn">>}
         /\ eventConsumer = ZeroObject => (~ret.err /\ ret.closed = << >>)

\* The handlers that decode a body.
Mutating == {"addItem", "updateItem", "deleteItem"}
\* The positions of a handler from mutex.Lock on.
Locked == CritPcs \cup {"lock", "publish", "respond", "unlock"}

\* C17: a malformed body on create, update or delete is answered with 400
\* "Invalid input" and the handler returns at once: it never takes the mutex,
\* so the sequence and nextID stay as they are and nothing is published.
C17_State ==
    \A p \in Procs :
      /\ (pc[p] = "done" /\ resp[p].status = StatusBadRequest) =>
           /\ Handler(req[p]) \in Mutating
           /\ body[p] = Malformed
           /\ local[p] = ZeroItem
           /\ pubResult[p] = "none"
           /\ resp[p] = ErrorResponse(StatusBadRequest, "Invalid input")
      /\ (pc[p] \in Locked /\ Handler(req[p]) \in Mutating) => body[p] # Malformed
C17_Step ==
    \A p \in Procs :
      (pc[p] = "decode" /\ pc'[p] # "decode" /\ body'[p] = Malformed) =>
        /\ pc'[p] = "done"
        /\ resp'[p] = ErrorResponse(StatusBadRequest, "Invalid input")
        /\ store' = store
        /\ queue' = queue
        /\ createLog' = createLog
        /\ mutex' = mutex
\* C17: as a state and a step property.
C17_MalformedBodyRejected == []C17_State /\ [][C17_Step]_vars
\* A create with a malformed body was rejected after an earlier create had
\* taken identifier 1: the counter still stands at 2.
C17_Witness ==
    \E p \in Procs :
      /\ pc[p] = "done"
      /\ resp[p].status = StatusBadRequest
      /\ Handler(req[p]) = "addItem"
      /\ Len(items) = 1
      /\ nextID = 2

\* The verb the routing table lists for each route.
ListedVerb(route) ==
    CASE route = RouteItems -> MethodGet
      [] route = RouteAdd -> MethodPost
      [] route = RouteUpdate -> MethodPut
      [] route = RouteDelete -> MethodDelete

\* C18: a request with a verb other than the route's listed one is answered
\* with 405 "Method not allowed" and runs no handler: it never decodes, never
\* takes the mutex and never publishes.
C18_State ==
    \A p \in Procs :
      (pc[p] # "idle" /\ req[p].method # ListedVerb(req[p].route)) =>
        /\ pc[p] = "done"
        /\ resp[p] = ErrorResponse(StatusMethodNotAllowed, "Method not allowed")
        /\ pubResult[p] = "none"
        /\ mutex # p
C18_Step ==
    served' # served =>
      /\ store' = store
      /\ queue' = queue
      /\ mutex' = mutex
      /\ createLog' = createLog
C19_PostItemsAdds ==
    \A p \in Procs :
      (pc[p] \in {"done", "unlock"}
         /\ req[p] = [route |-> RouteItems, method |-> MethodPost]) =>
        /\ resp[p].status = StatusCreated
        /\ HasId(items, resp[p].item.id)

\* C20: with a nil publisher (broker unavailable at startup) the server
\* serves every request as the one-at-a-time run of the store operations
\* answers it, and no Publish is attempted.
C20_ServesWithoutPublisher ==
    (mainPc = "serving" /\ eventPublisher = NilPublisher) =>
      /\ queue = << >>
      /\ \A p \in Procs :
           /\ pubResult[p] = "none"
           /\ pc[p] = "unlock" => resp[p] = seqResp[p]
           /\ (pc[p] = "unlock" /\ Handler(req[p]) = "addItem") =>
                resp[p].status = StatusCreated
      /\ mutex = Unlocked => StoreNow = seqStore
\* Without a publisher, a create and a delete have been served and an update
\* is answered 404.
C20_Witness ==
    /\ eventPublisher = NilPublisher
    /\ createLog # << >>
    /\ removed # {}
    /\ \E p \in Procs :
         /\ pc[p] = "unlock"
         /\ Handler(req[p]) = "updateItem"
         /\ resp[p].status = StatusNotFound

\* C21: marshalling an event and unmarshalling the bytes gives no error and
\* an event with the same type, item.id and item.name (and the same wall
\* clock instant), for each of the three event types; the three type values
\* are non-empty and pairwise distinct.
C21_RoundTrip ==
    /\ "" \notin EventTypes
    /\ Cardinality(EventTypes) = 3
    /\ EventItemCreated # EventItemUpdated
    /\ EventItemCreated # EventItemDeleted
    /\ EventItemUpdated # EventItemDeleted
    /\ (unmarshaled.done /\ data = Marshal(originalEvent)) =>
         /\ ~unmarshaled.err
         /\ unmarshaled.event.type = originalEvent.type
         /\ unmarshaled.event.item.id = originalEvent.item.id
         /\ unmarshaled.event.item.name = originalEvent.item.name
         /\ unmarshaled.event.timestamp.wall = originalEvent.timestamp.wall
\* An item.deleted event for the zero Item went through the round trip, and
\* what came back differs from the original in the monotonic clock reading
\* only.
C21_Witness ==
    /\ unmarshaled.done
    /\ data = Marshal(originalEvent)
    /\ originalEvent.type = EventItemDeleted
    /\ originalEvent.item = ZeroItem
    /\ originalEvent.timestamp.mono = 1
    /\ unmarshaled.event # originalEvent
    /\ unmarshaled.event = [originalEvent EXCEPT !.timestamp.mono = 0]

\* The event a message of the queue decodes to.
EventOf(b) == Unmarshal(b).event
\* The event the handler of p publishes for the item it answers with.
EventFor(p, item) == ItemEvent(EventTypeOf(Handler(req[p])), item, Now)

\* C22: with a working publisher a successful mutation puts exactly one
\* message into the queue, and it decodes to an event of the handler's type
\* whose item is the item of the response: the created record with its id,
\* the new record of an update, the removed record of a delete. A request
\* answered NotFound publishes nothing.
C22_State ==
    \A p \in Procs :
      /\ (pc[p] = "unlock" /\ Handler(req[p]) \in Mutating /\ pubResult[p] = "ok") =>
           /\ resp[p].kind = "item"
           /\ queue # << >>
           /\ ~Unmarshal(queue[Len(queue)]).err
           /\ EventOf(queue[Len(queue)]).type = EventTypeOf(Handler(req[p]))
           /\ EventOf(queue[Len(queue)]).item = resp[p].item
           /\ Handler(req[p]) = "addItem" =>
                (resp[p].item.id = nextID - 1 /\ items[Len(items)] = resp[p].item)
           /\ Handler(req[p]) = "updateItem" =>
                (resp[p].item = Sent(p)
                   /\ items[FirstMatch(items, Sent(p).id)] = resp[p].item)
           /\ Handler(req[p]) = "deleteItem" =>
                (resp[p].item.id = Sent(p).id /\ ~HasId(items, Sent(p).id))
      /\ (pc[p] = "unlock" /\ resp[p].status = StatusNotFound) => pubResult[p] = "none"
C22_Step ==
    /\ queue' # queue =>
         \E p \in Procs :
           /\ pc[p] = "publish" /\ pc'[p] = "respond"
           /\ pubResult'[p] = "ok"
           /\ queue' = Append(queue, Marshal(EventFor(p, local[p])))
           /\ Handler(req[p]) = "deleteItem" =>
                (local[p].id \in removed /\ ~HasId(items, local[p].id))
    /\ \A p \in Procs :
         (pubResult[p] # "ok" /\ pubResult'[p] = "ok") => Len(queue') = Len(queue) + 1
    /\ \A p \in Procs :
         (pc[p] = "respond" /\ pc'[p] = "unlock") =>
           (resp'[p].item = local[p] /\ queue' = queue)
\* C22: as a state and a step property.
C22_OneEventPerMutation == []C22_State /\ [][C22_Step]_vars
\* A delete whose body names the record differently than it was stored has
\* published the stored record.
C22_Witness ==
    \E p \in Procs :
      /\ pc[p] = "unlock"
      /\ Handler(req[p]) = "deleteItem"
      /\ pubResult[p] = "ok"
      /\ resp[p].item # Sent(p)
      /\ Len(queue) = 2

\* The messages of q that are about the record id.
AboutId(q, id) == SelectSeq(q, LAMBDA b : EventOf(b).item.id = id)

\* C23: events reach the queue in the order their mutations were applied:
\* a handler publishes while it is the only one whose applied mutation
\* awaits its publish, and no other handler is inside the critical section;
\* so for each id the item.created message comes first and the
\* item.deleted message last.
C23_State ==
    /\ Len(pending) <= 1
    /\ \A p \in Procs : pc[p] = "publish" <=> pending = <<p>>
    /\ \A p \in Procs : pc[p] = "publish" => mutex = p
    /\ \A id \in 1 .. MaxRequests :
         LET q == AboutId(queue, id) IN
         \A i \in 1 .. Len(q) :
           /\ EventOf(q[i]).type = EventItemCreated => i = 1
           /\ EventOf(q[i]).type = EventItemDeleted => i = Len(q)
C23_Step ==
    \A p \in Procs :
      (pc[p] = "publish" /\ pc'[p] # "publish") =>
        /\ pending # << >>
        /\ Head(pending) = p
        /\ pending' = Tail(pending)
        /\ queue' \in {queue, Append(queue, Marshal(EventFor(p, local[p])))}
\* C23: as a state and a step property.
C23_PublishedInStoreOrder == []C23_State /\ [][C23_Step]_vars
\* The queue holds the three events of one record in the order created,
\* updated, deleted.
C23_Witness ==
    /\ Len(queue) = 3
    /\ EventOf(queue[1]).type = EventItemCreated
    /\ EventOf(queue[2]).type = EventItemUpdated
    /\ EventOf(queue[3]).type = EventItemDeleted
    /\ \A i \in 1 .. 3 : EventOf(queue[i]).item.id = 1

\* C24: the ids of the stored records increase strictly along the sequence
\* and lie in 1 .. nextID-1; so no record has id 0, and an update or delete
\* whose body has no id is answered NotFound.
C24_IdsIncreasing ==
    /\ \A i \in 1 .. Len(items) : items[i].id >= 1 /\ items[i].id <= nextID - 1
    /\ \A i, j \in 1 .. Len(items) : i < j => items[i].id < items[j].id
    /\ ~HasId(items, 0)
    /\ \A p \in Procs :
         (pc[p] = "unlock" /\ Handler(req[p]) \in {"updateItem", "deleteItem"}
            /\ Sent(p).id = 0) =>
           resp[p] = ErrorResponse(StatusNotFound, "Item not found")
\* An update without an id was answered NotFound while the store holds two
\* records.
C24_Witness ==
    /\ Len(items) = 2
    /\ \E p \in Procs :
         /\ pc[p] = "unlock"
         /\ Handler(req[p]) = "updateItem"
         /\ body[p].id = -1
         /\ resp[p].status = StatusNotFound

\* C25: a create takes the store's next identifier whatever id the body
\* carries: the stored and the returned record have that identifier.
C25_State ==
    \A p \in Procs :
      /\ At(p, "addItem", {"publish", "respond", "unlock"}) =>
           /\ local[p] = Item(nextID - 1, Sent(p).name)
           /\ items[Len(items)] = local[p]
      /\ At(p, "addItem", {"unlock"}) => resp[p].item = Item(nextID - 1, Sent(p).name)
C25_Step ==
    \A p \in Procs :
      Leaves(p, "addItem", "addItem") =>
        /\ local[p] = Sent(p)
        /\ local'[p] = Item(nextID, Sent(p).name)
\* C25: as a state and a step property.
C25_CreateIgnoresBodyId == []C25_State /\ [][C25_Step]_vars
\* A create whose body asked for the id of a stored record got the next one.
C25_Witness ==
    \E p \in Procs :
      /\ At(p, "addItem", {"unlock"})
      /\ Sent(p).id = 1
      /\ resp[p].item.id = 2
      /\ HasId(items, 1)

\* The positions at which no request of p is being served.
Finished == {"idle", "done"}

\* C26: a handler that took the mutex gives it back on every path (success,
\* NotFound, publish error), so every request is answered and no goroutine
\* waits at mutex.Lock() forever.
C26_State ==
    \A p \in Procs :
      /\ pc[p] \in Finished \cup {"decode", "lock"} => mutex # p
      /\ pc[p] \in CritPcs => mutex = p
C26_Step ==
    \A p \in Procs :
      /\ (pc[p] \in CritPcs /\ pc'[p] \notin CritPcs) =>
           (pc[p] = "unlock" /\ pc'[p] = "idle" /\ mutex' = Unlocked)
      /\ (pc[p] \in CritPcs /\ pc'[p] = "unlock" /\ pc[p] # "unlock") =>
           \/ pc[p] = "getItems"
           \/ pc[p] = "respond" /\ pubResult[p] \in {"none", "ok", "err"}
           \/ pc[p] \in {"updateItem", "deleteItem"} /\ resp'[p].status = StatusNotFound
C26_Live ==
    \A p \in Procs :
      /\ (pc[p] \notin Finished) ~> (pc[p] \in Finished)
      /\ (mutex = p) ~> (mutex = Unlocked)
\* C26: the two safety parts and the progress part.
C26_LockAlwaysReleased == []C26_State /\ [][C26_Step]_vars /\ C26_Live
\* A goroutine waits for the mutex while the holder is on the path of a
\* failed publish.
C26_Witness ==
    \E p, q \in Procs :
      /\ pc[p] = "lock"
      /\ pc[q] = "respond"
      /\ pubResult[q] = "err"
      /\ mutex = q

\* C27: the loop of one Consume works on one delivery at a time: it takes
\* the next one only when the last one has its Ack or Nack, handler is
\* called for the delivery in hand only, and the loop ends, for good, when
\* the channel is closed.
C27_State ==
    /\ conPc \in {"unmarshal", "handle"} =>
         (delivery # NoDelivery /\ sigs = << >> /\ handlerRet = "none")
    /\ (conPc = "waiting" /\ delivery # NoDelivery) => Len(sigs) = 1
    /\ conPc = "ended" => eventConsumer.channel = "closed"
C27_Step ==
    /\ (conPc' = "unmarshal" /\ conPc # "unmarshal") =>
         /\ conPc = "waiting"
         /\ delivery = NoDelivery \/ Len(sigs) = 1
         /\ eventConsumer.channel = "open"
         /\ queue # << >>
         /\ delivery' = Head(queue)
         /\ queue' = Tail(queue)
    /\ calls' # calls =>
         /\ conPc = "handle" /\ conPc' = "waiting"
         /\ delivery' = delivery
         /\ \A b \in WireBodies \ {delivery} : calls'[b] = calls[b]
         /\ calls'[delivery] = calls[delivery] + 1
    /\ sigs' # sigs => (delivery' # delivery \/ Len(sigs') = Len(sigs) + 1
                         \/ (sigs' = << >> /\ conPc' = "unmarshal"))
    /\ (conPc' = "ended" /\ conPc # "ended") =>
         (conPc = "waiting" /\ eventConsumer.channel = "closed")
    /\ conPc = "ended" =>
         (conPc' = "ended" /\ delivery' = delivery /\ calls' = calls /\ sigs' = sigs)
C27_Ends ==
    (eventConsumer.channel = "closed" /\ conPc # "none") ~> (conPc = "ended")
\* C27: the state, step and progress parts.
C27_OneDeliveryAtATime == []C27_State /\ [][C27_Step]_vars /\ C27_Ends
\* The loop has ended after it acknowledged one delivery, with another
\* message left in the queue.
C27_Witness ==
    /\ conPc = "ended"
    /\ sigs = <<"ack">>
    /\ queue # << >>

\* The elements of a sequence.
Range(s) == {s[i] : i \in 1 .. Len(s)}
Constructors == {"NewEventPublisher", "NewEventConsumer"}
\* The object the last constructor call was to give.
Built == IF ret.op = "NewEventPublisher" THEN eventPublisher ELSE eventConsumer

\* C28: a constructor that fails at connect, channel or queue declaration
\* returns an error and no object, and has closed what it opened before; one
\* that succeeds closes nothing and returns an object with both resources
\* open.
C28_ConstructorCleansUp ==
    ret.op \in Constructors =>
      /\ ret.err =>
           /\ Built = ZeroObject
           /\ Range(ret.closed) = Range(ret.opened)
           /\ Len(ret.closed) = Len(ret.opened)
           /\ ret.closed \in {<< >>, <<"conn">>, <<"channel", "conn">>}
      /\ ~ret.err =>
           /\ ret.closed = << >>
           /\ ret.opened = <<"conn", "channel">>
           /\ Built.conn = "open" /\ Built.channel = "open"
           /\ Built.queue = "item_events"
\* NewEventConsumer failed at the queue declaration, after connection and
\* channel were open.
C28_Witness ==
    /\ ret.op = "NewEventConsumer"
    /\ ret.err
    /\ ret.opened = <<"conn", "channel">>
    /\ ret.closed = <<"channel", "conn">>
    /\ eventConsumer = ZeroObject

====
